---- MODULE Spec2Model ----
(***************************************************************************)
(* Model of the Genkit Python runtime core:                                *)
(*   genkit/core/_loop_local.py   the per-event-loop client cache          *)
(*   genkit/ai/_base_async.py     GenkitBase: the background reflection    *)
(*                                server and run_main                      *)
(***************************************************************************)
EXTENDS Integers, Sequences, FiniteSets, TLC

(***************************************************************************)
(* Bounds of the model.                                                    *)
(***************************************************************************)
\* Total number of getter calls started in one behaviour.
MaxCalls == 4

\* Number of event loops destroyed in one behaviour.
MaxLoopsDestroyed == 1

(***************************************************************************)
(* Part 1: _loop_local_client (genkit/core/_loop_local.py)                 *)
(***************************************************************************)
\* Python's None: what dict.get returns for a missing key, and a value a
\* factory may return.  Objects made by the factory are 1, 2, ...
None == 0

\* Event loops (execution contexts) and the callers of the getter.  Every
\* caller runs inside one loop: asyncio.get_running_loop() is loopOf.  A
\* loop is named by where it lives: when the loop at "A" has been destroyed,
\* the next loop created there is again the loop at "A", a different object.
Loops == {"A", "B"}
Tasks == {"t1", "t2", "t3"}
NoTask == "free"

get_running_loop(t) == IF t = "t3" THEN "B" ELSE "A"

VARIABLES
    by_loop,    \* the WeakKeyDictionary: a function on the loops that have an entry
    lock,       \* the threading.Lock: the task holding it, or NoTask
    pc,         \* per task: where it is inside _get ("reenter": blocked in a nested _get)
    result,     \* per task: how its last call of _get ended
    log,        \* per loop: the completed calls of _get made from it, in order
    nextObj,    \* the next object identity a factory hands out
    reused,     \* TRUE once the factory has returned an object it returned before
    calls,      \* number of calls of _get started
    dead        \* the loops destroyed so far, in order, each with the instances it was given

cacheVars == <<by_loop, lock, pc, result, log, nextObj, reused, calls, dead>>

VARIABLES
    env,        \* GENKIT_ENV, what is_dev_environment() reads: "dev" or "prod"
    ctor,       \* per instance: how __init__ ended: "no" (not called), "returned", "raised"
    host,       \* per instance: "absent", or the mode __init__ saw: "dev", "prod"
    spec,       \* per instance: self._reflection_server_spec, "unset" or a port
    ready,      \* per instance: self._reflection_ready (threading.Event)
    thr,        \* per instance: where the supervisor coroutine _run is
    srv,        \* per instance: where the server task (server.serve) is
    should_exit,\* per instance: server.should_exit
    own,        \* per instance: TRUE when _run bound the socket itself (sockets = [sock])
    bound,      \* the ports this process has a listening socket on
    manifest,   \* per instance: write_runtime_file() has run
    events,     \* per instance: the supervisor run's events, in order
    waiter,     \* per instance: a thread calling _reflection_ready.wait()
    registry,   \* per instance: the names registered in self.registry
    rm,         \* per instance: where run_main is
    user_result,\* per instance: dev_runner's user_result / the user coroutine's outcome
    rm_result,  \* per instance: what run_main gave its caller
    rm_mode,    \* per instance: the mode run_main saw: "none", "dev", "prod"
    rm_signal,  \* per instance: the signal that reached run_main: "none", "SIGINT", "SIGTERM"
    logged,     \* per instance: dev_runner has logged a failure of the user's coroutine
    listing     \* per instance: the last action listing the server produced; empty before the first

serverVars == <<env, ctor, host, spec, ready, thr, srv, should_exit, own, bound,
                manifest, events, waiter, registry, rm, user_result, rm_result,
                rm_mode, rm_signal, logged, listing>>

vars == <<cacheVars, serverVars>>

NoResult == [kind |-> "init", val |-> None]

\* A lookup that never finds an entry.
LookupMiss(l) == None

\* A lookup that ignores the key: any loop's entry will do.
LookupAnyLoop(l) ==
    IF l \in DOMAIN by_loop /\ by_loop[l] # None THEN by_loop[l]
    ELSE IF \E k \in DOMAIN by_loop : by_loop[k] # None
           THEN by_loop[CHOOSE k \in DOMAIN by_loop : by_loop[k] # None]
           ELSE None

\* by_loop.get(loop)
Lookup(l) == IF l \in DOMAIN by_loop THEN by_loop[l] ELSE None

\* by_loop[loop] = created
Store(l, v) == [k \in (DOMAIN by_loop) \cup {l} |-> IF k = l THEN v ELSE by_loop[k]]

\* A lock that excludes nobody.
LockNeverHeld == TRUE

\* threading.Lock.acquire: only a free lock can be taken.
LockIsFree == lock = NoTask

\* The end of a call of _get by task t: the `with` block is left (the lock is
\* released), the caller gets its outcome, the call is logged.
Finish(t, kind, v) ==
    /\ lock' = NoTask
    /\ pc' = [pc EXCEPT ![t] = "idle"]
    /\ result' = [result EXCEPT ![t] = [kind |-> kind, val |-> v]]
    /\ log' = [log EXCEPT ![get_running_loop(t)] =
                   Append(@, [task |-> t, kind |-> kind, val |-> v])]

\* _get is called: loop = asyncio.get_running_loop()
Call(t) ==
    /\ pc[t] = "idle"
    /\ calls < MaxCalls
    /\ calls' = calls + 1
    /\ pc' = [pc EXCEPT ![t] = "acquire"]
    /\ UNCHANGED <<by_loop, lock, result, log, nextObj, reused>>
    /\ UNCHANGED dead
    /\ UNCHANGED serverVars

\* with lock:
Acquire(t) ==
    /\ pc[t] = "acquire"
    /\ LockIsFree
    /\ lock' = t
    /\ pc' = [pc EXCEPT ![t] = "get"]
    /\ UNCHANGED <<by_loop, result, log, nextObj, reused, calls>>
    /\ UNCHANGED dead
    /\ UNCHANGED serverVars

\* A lookup by key presence (if loop in by_loop): a stored None is a hit.
GetExistingKeyPresent(t) ==
    /\ pc[t] = "get"
    /\ IF get_running_loop(t) \in DOMAIN by_loop
         THEN /\ Finish(t, "hit", by_loop[get_running_loop(t)])
              /\ UNCHANGED <<by_loop, nextObj, reused, calls>>
         ELSE /\ pc' = [pc EXCEPT ![t] = "factory"]
              /\ UNCHANGED <<by_loop, lock, result, log, nextObj, reused, calls>>
    /\ UNCHANGED dead
    /\ UNCHANGED serverVars

\* existing = by_loop.get(loop); if existing is not None: return existing
GetExisting(t) ==
    /\ pc[t] = "get"
    /\ LET existing == Lookup(get_running_loop(t)) IN
         IF existing # None
           THEN /\ Finish(t, "hit", existing)
                /\ UNCHANGED <<by_loop, nextObj, reused, calls>>
           ELSE /\ pc' = [pc EXCEPT ![t] = "factory"]
                /\ UNCHANGED <<by_loop, lock, result, log, nextObj, reused, calls>>
    /\ UNCHANGED dead
    /\ UNCHANGED serverVars

\* created = factory(); by_loop[loop] = created; return created
\* The factory returns an object it has never returned before.
FactoryFresh(t) ==
    /\ pc[t] = "factory"
    /\ by_loop' = Store(get_running_loop(t), nextObj)
    /\ nextObj' = nextObj + 1
    /\ Finish(t, "new", nextObj)
    /\ UNCHANGED <<reused, calls>>
    /\ UNCHANGED dead
    /\ UNCHANGED serverVars

\* The factory returns an object it returned before (a shared singleton).
FactoryReuse(t) ==
    /\ pc[t] = "factory"
    /\ \E o \in 1..(nextObj - 1) :
         /\ by_loop' = Store(get_running_loop(t), o)
         /\ Finish(t, "new", o)
    /\ reused' = TRUE
    /\ UNCHANGED <<nextObj, calls>>
    /\ UNCHANGED dead
    /\ UNCHANGED serverVars

\* The factory returns None: None is stored and returned.
FactoryNone(t) ==
    /\ pc[t] = "factory"
    /\ by_loop' = Store(get_running_loop(t), None)
    /\ Finish(t, "none", None)
    /\ UNCHANGED <<nextObj, reused, calls>>
    /\ UNCHANGED dead
    /\ UNCHANGED serverVars

\* A raising factory that leaves the lock held (no `with`).
FactoryRaisesLockKept(t) ==
    /\ pc[t] = "factory"
    /\ pc' = [pc EXCEPT ![t] = "idle"]
    /\ result' = [result EXCEPT ![t] = [kind |-> "raise", val |-> None]]
    /\ log' = [log EXCEPT ![get_running_loop(t)] =
                   Append(@, [task |-> t, kind |-> "raise", val |-> None])]
    /\ UNCHANGED <<by_loop, lock, nextObj, reused, calls>>
    /\ UNCHANGED dead
    /\ UNCHANGED serverVars

\* The factory raises: the assignment is not reached, the `with` block
\* releases the lock, the exception goes to the caller of _get.
FactoryRaises(t) ==
    /\ pc[t] = "factory"
    /\ Finish(t, "raise", None)
    /\ UNCHANGED <<by_loop, nextObj, reused, calls>>
    /\ UNCHANGED dead
    /\ UNCHANGED serverVars

\* The factory, called at line 39 with the lock held, calls the getter it
\* is cached by: the inner _get reaches `with lock:` (line 35) on the
\* thread that holds the lock.  threading.Lock is not reentrant, so the
\* thread blocks there; no step of it is possible afterwards.
FactoryReenters(t) ==
    /\ pc[t] = "factory"
    /\ pc' = [pc EXCEPT ![t] = "reenter"]
    /\ UNCHANGED <<by_loop, lock, result, log, nextObj, reused, calls>>
    /\ UNCHANGED dead
    /\ UNCHANGED serverVars

\* A dictionary that keeps the entry of a key that no longer exists (keyed
\* by the loop's id).
EntryKept(l) == by_loop

\* weakref.WeakKeyDictionary, line 30: the key is held weakly, and when it
\* is destroyed its entry is removed.
EntryRemoved(l) == [k \in (DOMAIN by_loop) \ {l} |-> by_loop[k]]

\* The loop at l is closed and, nothing else referring to it, destroyed;
\* its tasks run in a new loop from now on.  The log of l starts again for
\* the new loop.
DestroyLoop(l) ==
    /\ Len(dead) < MaxLoopsDestroyed
    /\ \A t \in Tasks : get_running_loop(t) = l => pc[t] = "idle"
    /\ by_loop' = EntryRemoved(l)
    /\ dead' = Append(dead, [loop |-> l,
                             objs |-> {log[l][n].val : n \in 1..Len(log[l])} \ {None}])
    /\ log' = [log EXCEPT ![l] = <<>>]
    /\ UNCHANGED <<lock, pc, result, nextObj, reused, calls>>
    /\ UNCHANGED serverVars

CacheInit ==
    /\ by_loop = <<>>
    /\ lock = NoTask
    /\ pc = [t \in Tasks |-> "idle"]
    /\ result = [t \in Tasks |-> NoResult]
    /\ log = [l \in Loops |-> <<>>]
    /\ nextObj = 1
    /\ reused = FALSE
    /\ calls = 0
    /\ dead = <<>>

CacheNext ==
    \/ \E t \in Tasks : Call(t)
    \/ \E t \in Tasks : Acquire(t)
    \/ \E t \in Tasks : GetExisting(t)
    \/ \E t \in Tasks : FactoryFresh(t)
    \/ \E t \in Tasks : FactoryReuse(t)
    \/ \E t \in Tasks : FactoryNone(t)
    \/ \E t \in Tasks : FactoryRaises(t)
    \/ \E t \in Tasks : FactoryReenters(t)
    \/ \E l \in Loops : DestroyLoop(l)

(***************************************************************************)
(* Part 2: GenkitBase (genkit/ai/_base_async.py)                           *)
(***************************************************************************)
\* The Genkit instances of the process, the endpoints a caller may pass as
\* reflection_server_spec, and the ports the OS hands out for port 0.
Insts == {"g1", "g2"}
Unset == "unset"
ExplicitPorts == {"p1", "p2"}
EphemeralPorts == {"e1", "e2"}

\* is_dev_environment()
AlwaysDev == TRUE

is_dev_environment == env = "dev"

\* self._ready.set() left out.
SetReadySkipped(i) == UNCHANGED ready

\* self._ready.set()
SetReady(i) == ready' = [ready EXCEPT ![i] = TRUE]

\* server.should_exit read as always false.
ServerExitingIgnored(i) == FALSE

\* server.should_exit, as _run reads it after the readiness wait
ServerExiting(i) == should_exit[i]

Event(i, e) == events' = [events EXCEPT ![i] = Append(@, e)]

\* The server bound and started in __init__ itself: a failure is raised to
\* the caller of the constructor.
start_reflection_foreground(i) ==
    \/ /\ thr' = [thr EXCEPT ![i] = "start"]
       /\ ctor' = [ctor EXCEPT ![i] = "returned"]
    \/ /\ thr' = [thr EXCEPT ![i] = "crashed"]
       /\ ctor' = [ctor EXCEPT ![i] = "raised"]

\* _start_reflection_background: the daemon thread is started and the call
\* returns; whatever _thread_main raises later ends that thread only.
start_reflection_background(i) ==
    /\ thr' = [thr EXCEPT ![i] = "start"]
    /\ ctor' = [ctor EXCEPT ![i] = "returned"]

\* GenkitBase.__init__(reflection_server_spec = s)
Construct(i, s) ==
    /\ host[i] = "absent"
    /\ host' = [host EXCEPT ![i] = env]
    /\ spec' = [spec EXCEPT ![i] = s]
    /\ registry' = [registry EXCEPT ![i] = {"generate"}]
    /\ IF is_dev_environment
         THEN start_reflection_background(i)
         ELSE /\ ctor' = [ctor EXCEPT ![i] = "returned"]
              /\ UNCHANGED thr
    /\ UNCHANGED <<env, ready, srv, should_exit, own, bound, manifest, events,
                   waiter, rm, user_result, rm_result>>
    /\ UNCHANGED <<rm_mode, rm_signal, logged, listing>>
    /\ UNCHANGED cacheVars

\* _thread_main, lines 100-104 and 133: the thread runs asyncio.run(_run())
\* and _run reads self._reflection_server_spec to decide who binds.
RunBegins(i) ==
    /\ thr[i] = "start"
    /\ thr' = [thr EXCEPT ![i] = "resolve"]
    /\ UNCHANGED <<env, ctor, host, spec, ready, srv, should_exit, own, bound, manifest,
                   events, waiter, registry, rm, user_result, rm_result>>
    /\ UNCHANGED <<rm_mode, rm_signal, logged, listing>>
    /\ UNCHANGED cacheVars

\* A port found free by a probe and bound afterwards with address reuse:
\* another socket may have taken it in between.
PortsProbed == EphemeralPorts

\* bind(('127.0.0.1', 0)), line 108: the OS picks a port no socket listens
\* on and binds it in the same call.
PortsForZero == EphemeralPorts \ bound

\* A _run that binds its socket but does not store the resolved spec.
BindOwnSocketSpecNotStored(i) ==
    /\ thr[i] = "resolve"
    /\ spec[i] = Unset
    /\ \E p \in PortsForZero : bound' = bound \cup {p}
    /\ own' = [own EXCEPT ![i] = TRUE]
    /\ thr' = [thr EXCEPT ![i] = "spawn"]
    /\ Event(i, "bind")
    /\ UNCHANGED <<env, ctor, host, spec, ready, srv, should_exit, manifest, waiter,
                   registry, rm, user_result, rm_result>>
    /\ UNCHANGED <<rm_mode, rm_signal, logged, listing>>
    /\ UNCHANGED cacheVars

\* _run, lines 102-113, with no explicit spec: socket(), bind(('127.0.0.1', 0)),
\* listen(), getsockname(); the resolved spec is stored and the socket kept
\* for uvicorn.
BindOwnSocket(i) ==
    /\ thr[i] = "resolve"
    /\ spec[i] = Unset
    /\ \E p \in PortsForZero :
         /\ spec' = [spec EXCEPT ![i] = p]
         /\ bound' = bound \cup {p}
    /\ own' = [own EXCEPT ![i] = TRUE]
    /\ thr' = [thr EXCEPT ![i] = "spawn"]
    /\ Event(i, "bind")
    /\ UNCHANGED <<env, ctor, host, ready, srv, should_exit, manifest, waiter,
                   registry, rm, user_result, rm_result>>
    /\ UNCHANGED <<rm_mode, rm_signal, logged, listing>>
    /\ UNCHANGED cacheVars

\* The same lines when socket(), bind() or listen() raises OSError: the
\* exception leaves _run and asyncio.run, and the thread ends.
BindOwnSocketFails(i) ==
    /\ thr[i] = "resolve"
    /\ spec[i] = Unset
    /\ thr' = [thr EXCEPT ![i] = "crashed"]
    /\ UNCHANGED <<env, ctor, host, spec, ready, srv, should_exit, own, bound, manifest,
                   events, waiter, registry, rm, user_result, rm_result>>
    /\ UNCHANGED <<rm_mode, rm_signal, logged, listing>>
    /\ UNCHANGED cacheVars

\* Instance i holds the listening socket it bound itself (sock of line 107):
\* from the bind until its server task has served and closed it.
Holding(i) ==
    /\ own[i]
    /\ spec[i] \in bound
    /\ srv[i] = "ended" => should_exit[i]

\* A _run that binds its own socket whatever spec it was given, and stores
\* the port it got.
ExplicitSpecOverwritten(i) ==
    /\ thr[i] = "resolve"
    /\ spec[i] # Unset
    /\ \E p \in PortsForZero :
         /\ spec' = [spec EXCEPT ![i] = p]
         /\ bound' = bound \cup {p}
    /\ own' = [own EXCEPT ![i] = TRUE]
    /\ thr' = [thr EXCEPT ![i] = "spawn"]
    /\ Event(i, "bind")
    /\ UNCHANGED <<env, ctor, host, ready, srv, should_exit, manifest, waiter,
                   registry, rm, user_result, rm_result>>
    /\ UNCHANGED <<rm_mode, rm_signal, logged, listing>>
    /\ UNCHANGED cacheVars

\* _run with an explicit spec: nothing is bound here, sockets stays None.
UseExplicitSpec(i) ==
    /\ thr[i] = "resolve"
    /\ spec[i] # Unset
    /\ thr' = [thr EXCEPT ![i] = "spawn"]
    /\ UNCHANGED <<env, ctor, host, spec, ready, srv, should_exit, own, bound, manifest,
                   events, waiter, registry, rm, user_result, rm_result>>
    /\ UNCHANGED <<rm_mode, rm_signal, logged, listing>>
    /\ UNCHANGED cacheVars

\* A server whose creation already sets the readiness event.
SpawnServerSetsReady(i) ==
    /\ thr[i] = "spawn"
    /\ srv' = [srv EXCEPT ![i] = "starting"]
    /\ thr' = [thr EXCEPT ![i] = "wait"]
    /\ ready' = [ready EXCEPT ![i] = TRUE]
    /\ UNCHANGED <<env, ctor, host, spec, should_exit, own, bound, manifest,
                   events, waiter, registry, rm, user_result, rm_result>>
    /\ UNCHANGED <<rm_mode, rm_signal, logged, listing>>
    /\ UNCHANGED cacheVars

\* A runtime manager that writes the runtime file on entry (lazy_write off).
SpawnServerEagerWrite(i) ==
    /\ thr[i] = "spawn"
    /\ srv' = [srv EXCEPT ![i] = "starting"]
    /\ thr' = [thr EXCEPT ![i] = "wait"]
    /\ manifest' = [manifest EXCEPT ![i] = TRUE]
    /\ Event(i, "manifest")
    /\ UNCHANGED <<env, ctor, host, spec, ready, should_exit, own, bound,
                   waiter, registry, rm, user_result, rm_result>>
    /\ UNCHANGED <<rm_mode, rm_signal, logged, listing>>
    /\ UNCHANGED cacheVars

\* _run, lines 115-121: the server is made, RuntimeManager(lazy_write=True)
\* is entered, the server task is created, and _run suspends in
\* asyncio.to_thread(self._reflection_ready.wait).
SpawnServer(i) ==
    /\ thr[i] = "spawn"
    /\ srv' = [srv EXCEPT ![i] = "starting"]
    /\ thr' = [thr EXCEPT ![i] = "wait"]
    /\ UNCHANGED <<env, ctor, host, spec, ready, should_exit, own, bound, manifest,
                   events, waiter, registry, rm, user_result, rm_result>>
    /\ UNCHANGED <<rm_mode, rm_signal, logged, listing>>
    /\ UNCHANGED cacheVars

\* A readiness wait called on the event loop itself: the loop is blocked
\* while _run waits, and free only at the await of the server task.
SuspendedAtAwaitOnly(i) == thr[i] = "await"

\* The server task runs on _run's event loop: only while _run is suspended.
\* Line 121 runs the blocking wait in a worker thread (asyncio.to_thread),
\* so _run is suspended, and the loop free, during the readiness wait too.
Suspended(i) == thr[i] \in {"wait", "await"}

\* _ReflectionServer.startup, line 58: super().startup() returns with the
\* server listening, on the socket it was given or on one it binds to the
\* explicit host and port.
StartupBinds(i) ==
    /\ srv[i] = "starting"
    /\ Suspended(i)
    /\ IF own[i]
         THEN UNCHANGED <<bound, events>>
         ELSE /\ spec[i] \notin bound
              /\ bound' = bound \cup {spec[i]}
              /\ Event(i, "bind")
    /\ srv' = [srv EXCEPT ![i] = "started"]
    /\ UNCHANGED <<env, ctor, host, spec, ready, thr, should_exit, own, manifest,
                   waiter, registry, rm, user_result, rm_result>>
    /\ UNCHANGED <<rm_mode, rm_signal, logged, listing>>
    /\ UNCHANGED cacheVars

\* line 58: the application's lifespan startup fails; uvicorn sets
\* should_exit and returns before it listens.
StartupLifespanFails(i) ==
    /\ srv[i] = "starting"
    /\ Suspended(i)
    /\ should_exit' = [should_exit EXCEPT ![i] = TRUE]
    /\ srv' = [srv EXCEPT ![i] = "exiting"]
    /\ UNCHANGED <<env, ctor, host, spec, ready, thr, own, bound, manifest, events,
                   waiter, registry, rm, user_result, rm_result>>
    /\ UNCHANGED <<rm_mode, rm_signal, logged, listing>>
    /\ UNCHANGED cacheVars

\* line 58: uvicorn cannot bind the explicit host and port (the port is
\* held by this or another process): it logs the OSError and calls
\* sys.exit(1), so SystemExit is raised out of startup.
StartupBindFails(i) ==
    /\ srv[i] = "starting"
    /\ Suspended(i)
    /\ ~own[i]
    /\ srv' = [srv EXCEPT ![i] = "sysexit"]
    /\ UNCHANGED <<env, ctor, host, spec, ready, thr, should_exit, own, bound, manifest,
                   events, waiter, registry, rm, user_result, rm_result>>
    /\ UNCHANGED <<rm_mode, rm_signal, logged, listing>>
    /\ UNCHANGED cacheVars

\* lines 59-60: finally: self._ready.set().  After it the server serves
\* ("started"), or serve() returns ("exiting"), or SystemExit leaves the
\* task and unwinds the thread's event loop, which cancels _run ("sysexit").
StartupFinally(i) ==
    /\ srv[i] \in {"started", "exiting", "sysexit"}
    /\ SetReady(i)
    /\ Event(i, "ready_set")
    /\ srv' = [srv EXCEPT ![i] = IF srv[i] = "started" THEN "serving" ELSE "ended"]
    /\ thr' = [thr EXCEPT ![i] = IF srv[i] = "sysexit" THEN "crashed" ELSE @]
    /\ UNCHANGED <<env, ctor, host, spec, should_exit, own, bound, manifest,
                   waiter, registry, rm, user_result, rm_result>>
    /\ UNCHANGED <<rm_mode, rm_signal, logged, listing>>
    /\ UNCHANGED cacheVars

\* _run, lines 121-125: the readiness wait returns; if server.should_exit,
\* the warning is logged and _run returns.
ConfirmReady(i) ==
    /\ thr[i] = "wait"
    /\ ready[i]
    /\ IF ServerExiting(i)
         THEN /\ thr' = [thr EXCEPT ![i] = "failed"]
              /\ UNCHANGED events
         ELSE /\ thr' = [thr EXCEPT ![i] = "write"]
              /\ Event(i, "confirmed")
    /\ UNCHANGED <<env, ctor, host, spec, ready, srv, should_exit, own, bound, manifest,
                   waiter, registry, rm, user_result, rm_result>>
    /\ UNCHANGED <<rm_mode, rm_signal, logged, listing>>
    /\ UNCHANGED cacheVars

\* _run, lines 127-131: runtime_manager.write_runtime_file(), then
\* await server_task.
WriteManifest(i) ==
    /\ thr[i] = "write"
    /\ manifest' = [manifest EXCEPT ![i] = TRUE]
    /\ Event(i, "manifest")
    /\ thr' = [thr EXCEPT ![i] = "await"]
    /\ UNCHANGED <<env, ctor, host, spec, ready, srv, should_exit, own, bound,
                   waiter, registry, rm, user_result, rm_result>>
    /\ UNCHANGED <<rm_mode, rm_signal, logged, listing>>
    /\ UNCHANGED cacheVars

\* The server task ends after it served (it is cancelled, or fails): its
\* listening socket is closed.
ServerTaskEnds(i) ==
    /\ srv[i] = "serving"
    /\ Suspended(i)
    /\ srv' = [srv EXCEPT ![i] = "ended"]
    /\ bound' = bound \ {spec[i]}
    /\ UNCHANGED <<env, ctor, host, spec, ready, thr, should_exit, own, manifest, events,
                   waiter, registry, rm, user_result, rm_result>>
    /\ UNCHANGED <<rm_mode, rm_signal, logged, listing>>
    /\ UNCHANGED cacheVars

\* A supervisor that returns after writing the runtime file, without
\* awaiting the server task.
SupervisorReturnsEarly(i) ==
    /\ thr[i] = "await"
    /\ thr' = [thr EXCEPT ![i] = "stopped"]
    /\ UNCHANGED <<env, ctor, host, spec, ready, srv, should_exit, own, bound, manifest,
                   events, waiter, registry, rm, user_result, rm_result>>
    /\ UNCHANGED <<rm_mode, rm_signal, logged, listing>>
    /\ UNCHANGED cacheVars

\* A supervisor that starts over when its server task has ended.
SupervisorRestarts(i) ==
    /\ thr[i] = "await"
    /\ srv[i] = "ended"
    /\ thr' = [thr EXCEPT ![i] = "resolve"]
    /\ UNCHANGED <<env, ctor, host, spec, ready, srv, should_exit, own, bound, manifest,
                   events, waiter, registry, rm, user_result, rm_result>>
    /\ UNCHANGED <<rm_mode, rm_signal, logged, listing>>
    /\ UNCHANGED cacheVars

\* _run, line 131: await server_task returns once the server task has ended.
SupervisorReturns(i) ==
    /\ thr[i] = "await"
    /\ srv[i] = "ended"
    /\ thr' = [thr EXCEPT ![i] = "stopped"]
    /\ UNCHANGED <<env, ctor, host, spec, ready, srv, should_exit, own, bound, manifest,
                   events, waiter, registry, rm, user_result, rm_result>>
    /\ UNCHANGED <<rm_mode, rm_signal, logged, listing>>
    /\ UNCHANGED cacheVars

\* Another thread calls self._reflection_ready.wait() ...
WaitStart(i) ==
    /\ ctor[i] = "returned"
    /\ waiter[i] = "idle"
    /\ waiter' = [waiter EXCEPT ![i] = "waiting"]
    /\ UNCHANGED <<env, ctor, host, spec, ready, thr, srv, should_exit, own, bound,
                   manifest, events, registry, rm, user_result, rm_result>>
    /\ UNCHANGED <<rm_mode, rm_signal, logged, listing>>
    /\ UNCHANGED cacheVars

\* A wait on an auto-reset event: the woken waiter clears the flag.
WaitReturnClears(i) ==
    /\ waiter[i] = "waiting"
    /\ ready[i]
    /\ waiter' = [waiter EXCEPT ![i] = "released"]
    /\ ready' = [ready EXCEPT ![i] = FALSE]
    /\ UNCHANGED <<env, ctor, host, spec, thr, srv, should_exit, own, bound,
                   manifest, events, registry, rm, user_result, rm_result>>
    /\ UNCHANGED <<rm_mode, rm_signal, logged, listing>>
    /\ UNCHANGED cacheVars

\* ... and the wait returns once the event is set.
WaitReturn(i) ==
    /\ waiter[i] = "waiting"
    /\ ready[i]
    /\ waiter' = [waiter EXCEPT ![i] = "released"]
    /\ UNCHANGED <<env, ctor, host, spec, ready, thr, srv, should_exit, own, bound,
                   manifest, events, registry, rm, user_result, rm_result>>
    /\ UNCHANGED <<rm_mode, rm_signal, logged, listing>>
    /\ UNCHANGED cacheVars

\* The host registers an action (a flow) on the instance's registry.
RegisterAction(i) ==
    /\ ctor[i] = "returned"
    /\ "flow" \notin registry[i]
    /\ registry' = [registry EXCEPT ![i] = @ \cup {"flow"}]
    /\ UNCHANGED <<env, ctor, host, spec, ready, thr, srv, should_exit, own, bound,
                   manifest, events, waiter, rm, user_result, rm_result>>
    /\ UNCHANGED <<rm_mode, rm_signal, logged, listing>>
    /\ UNCHANGED cacheVars

\* A server built on a copy of the registry taken at construction.
ServerRegistryCopy(i) == {"generate"}

\* The registry the server's app reads: line 115 passes self.registry, the
\* object the host registers into, to create_reflection_asgi_app.
ServerRegistry(i) == registry[i]

\* The serving server answers a request for the list of actions; the
\* request is handled on the supervisor thread's event loop.
ListActions(i) ==
    /\ srv[i] = "serving"
    /\ Suspended(i)
    /\ listing' = [listing EXCEPT ![i] = ServerRegistry(i)]
    /\ UNCHANGED <<env, ctor, host, spec, ready, thr, srv, should_exit, own, bound,
                   manifest, events, waiter, registry, rm, user_result, rm_result>>
    /\ UNCHANGED <<rm_mode, rm_signal, logged>>
    /\ UNCHANGED cacheVars

\* The signals the signal wait of dev_runner ends on, lines 195-209.
Signals == {"SIGINT", "SIGTERM"}

\* run_main has ended for instance i, or was never called.
RunMainOver(i) == rm[i] \in {"idle", "returned", "raised", "interrupted"}

\* The process environment is changed: GENKIT_ENV is read on every call of
\* is_dev_environment().
SetEnv ==
    /\ env' = IF env = "dev" THEN "prod" ELSE "dev"
    /\ \A i \in Insts : RunMainOver(i)
    /\ UNCHANGED <<ctor, host, spec, ready, thr, srv, should_exit, own, bound,
                   manifest, events, waiter, registry, rm, user_result, rm_result>>
    /\ UNCHANGED <<rm_mode, rm_signal, logged, listing>>
    /\ UNCHANGED cacheVars

\* A run_main that starts the reflection server itself when none runs.
RunMainStartsServer(i) ==
    /\ ctor[i] = "returned"
    /\ \A j \in Insts : rm[j] = "idle"
    /\ rm' = [rm EXCEPT ![i] = IF is_dev_environment THEN "dev_user" ELSE "prod_run"]
    /\ rm_mode' = [rm_mode EXCEPT ![i] = IF is_dev_environment THEN "dev" ELSE "prod"]
    /\ thr' = [thr EXCEPT ![i] = IF @ = "none" THEN "start" ELSE @]
    /\ UNCHANGED <<env, ctor, host, spec, ready, srv, should_exit, own, bound,
                   manifest, events, waiter, registry, user_result, rm_result>>
    /\ UNCHANGED <<rm_signal, logged, listing>>
    /\ UNCHANGED cacheVars

\* run_main(coro), lines 181-187 and 215: production mode runs the coroutine
\* with run_loop, development mode runs dev_runner.  run_main is the program's
\* entry point: the main thread calls it once in a process.
RunMain(i) ==
    /\ ctor[i] = "returned"
    /\ \A j \in Insts : rm[j] = "idle"
    /\ rm' = [rm EXCEPT ![i] = IF is_dev_environment THEN "dev_user" ELSE "prod_run"]
    /\ rm_mode' = [rm_mode EXCEPT ![i] = IF is_dev_environment THEN "dev" ELSE "prod"]
    /\ UNCHANGED <<env, ctor, host, spec, ready, thr, srv, should_exit, own, bound,
                   manifest, events, waiter, registry, user_result, rm_result>>
    /\ UNCHANGED <<rm_signal, logged, listing>>
    /\ UNCHANGED cacheVars

\* A dev_runner that returns as soon as the user's coroutine has returned.
UserTaskReturnsNoWait(i) ==
    /\ rm[i] \in {"prod_run", "dev_user"}
    /\ user_result' = [user_result EXCEPT ![i] = "value"]
    /\ rm' = [rm EXCEPT ![i] = "returned"]
    /\ rm_result' = [rm_result EXCEPT ![i] = "value"]
    /\ UNCHANGED <<env, ctor, host, spec, ready, thr, srv, should_exit, own, bound,
                   manifest, events, waiter, registry>>
    /\ UNCHANGED <<rm_mode, rm_signal, logged, listing>>
    /\ UNCHANGED cacheVars

\* The user's coroutine returns a value: line 183 returns it; line 190
\* keeps it in user_result and dev_runner goes on to the signal wait.
UserTaskReturns(i) ==
    /\ rm[i] \in {"prod_run", "dev_user"}
    /\ user_result' = [user_result EXCEPT ![i] = "value"]
    /\ IF rm[i] = "prod_run"
         THEN /\ rm' = [rm EXCEPT ![i] = "returned"]
              /\ rm_result' = [rm_result EXCEPT ![i] = "value"]
         ELSE /\ rm' = [rm EXCEPT ![i] = "dev_wait"]
              /\ UNCHANGED rm_result
    /\ UNCHANGED <<env, ctor, host, spec, ready, thr, srv, should_exit, own, bound,
                   manifest, events, waiter, registry>>
    /\ UNCHANGED <<rm_mode, rm_signal, logged, listing>>
    /\ UNCHANGED cacheVars

\* A dev_runner without the try/except around the user's coroutine.
UserTaskFailsUncaught(i) ==
    /\ rm[i] \in {"prod_run", "dev_user"}
    /\ rm' = [rm EXCEPT ![i] = "raised"]
    /\ rm_result' = [rm_result EXCEPT ![i] = "exception"]
    /\ UNCHANGED <<env, ctor, host, spec, ready, thr, srv, should_exit, own, bound,
                   manifest, events, waiter, registry, user_result>>
    /\ UNCHANGED <<rm_mode, rm_signal, logged, listing>>
    /\ UNCHANGED cacheVars

\* The user's coroutine raises an Exception: line 183 lets it propagate;
\* lines 192-193 log it, user_result stays None and dev_runner goes on to
\* the signal wait.
UserTaskFails(i) ==
    /\ rm[i] \in {"prod_run", "dev_user"}
    /\ IF rm[i] = "prod_run"
         THEN /\ rm' = [rm EXCEPT ![i] = "raised"]
              /\ rm_result' = [rm_result EXCEPT ![i] = "exception"]
              /\ UNCHANGED user_result
              /\ UNCHANGED logged
         ELSE /\ rm' = [rm EXCEPT ![i] = "dev_wait"]
              /\ logged' = [logged EXCEPT ![i] = TRUE]
              /\ UNCHANGED <<user_result, rm_result>>
    /\ UNCHANGED <<env, ctor, host, spec, ready, thr, srv, should_exit, own, bound,
                   manifest, events, waiter, registry>>
    /\ UNCHANGED <<rm_mode, rm_signal, listing>>
    /\ UNCHANGED cacheVars

\* SIGINT while dev_runner awaits the user's coroutine (line 190): the
\* event loop cancels the main task; the cancellation is not an Exception,
\* so line 192 does not catch it and run_main ends with KeyboardInterrupt.
InterruptUserTask(i) ==
    /\ rm[i] = "dev_user"
    /\ rm' = [rm EXCEPT ![i] = "interrupted"]
    /\ rm_result' = [rm_result EXCEPT ![i] = "KeyboardInterrupt"]
    /\ rm_signal' = [rm_signal EXCEPT ![i] = "SIGINT"]
    /\ UNCHANGED <<env, ctor, host, spec, ready, thr, srv, should_exit, own, bound,
                   manifest, events, waiter, registry, user_result>>
    /\ UNCHANGED <<rm_mode, logged, listing>>
    /\ UNCHANGED cacheVars

\* lines 198-209: while dev_runner sleeps in the task group, SIGINT cancels
\* the main task and SIGTERM makes _handle_sigterm cancel the task group's
\* scope.
SignalArrives(i, s) ==
    /\ rm[i] = "dev_wait"
    /\ rm' = [rm EXCEPT ![i] = "dev_cancelled"]
    /\ rm_signal' = [rm_signal EXCEPT ![i] = s]
    /\ UNCHANGED <<env, ctor, host, spec, ready, thr, srv, should_exit, own, bound,
                   manifest, events, waiter, registry, user_result, rm_result>>
    /\ UNCHANGED <<rm_mode, logged, listing>>
    /\ UNCHANGED cacheVars

\* lines 211-213 and 215: the cancellation is swallowed; dev_runner returns
\* user_result (None when the user's coroutine failed) and run_main returns
\* it.
DevRunnerReturns(i) ==
    /\ rm[i] = "dev_cancelled"
    /\ rm' = [rm EXCEPT ![i] = "returned"]
    /\ rm_result' = [rm_result EXCEPT ![i] = user_result[i]]
    /\ UNCHANGED <<env, ctor, host, spec, ready, thr, srv, should_exit, own, bound,
                   manifest, events, waiter, registry, user_result>>
    /\ UNCHANGED <<rm_mode, rm_signal, logged, listing>>
    /\ UNCHANGED cacheVars

ServerInit ==
    /\ env \in {"dev", "prod"}
    /\ ctor = [i \in Insts |-> "no"]
    /\ host = [i \in Insts |-> "absent"]
    /\ spec = [i \in Insts |-> Unset]
    /\ ready = [i \in Insts |-> FALSE]
    /\ thr = [i \in Insts |-> "none"]
    /\ srv = [i \in Insts |-> "none"]
    /\ should_exit = [i \in Insts |-> FALSE]
    /\ own = [i \in Insts |-> FALSE]
    /\ bound = {}
    /\ manifest = [i \in Insts |-> FALSE]
    /\ events = [i \in Insts |-> <<>>]
    /\ waiter = [i \in Insts |-> "idle"]
    /\ registry = [i \in Insts |-> {}]
    /\ rm = [i \in Insts |-> "idle"]
    /\ user_result = [i \in Insts |-> "None"]
    /\ rm_result = [i \in Insts |-> "pending"]
    /\ rm_mode = [i \in Insts |-> "none"]
    /\ rm_signal = [i \in Insts |-> "none"]
    /\ logged = [i \in Insts |-> FALSE]
    /\ listing = [i \in Insts |-> {}]

Init == CacheInit /\ ServerInit

\* The steps of the supervisor thread and of its server task.
SupervisorStep(i) ==
    \/ RunBegins(i)
    \/ BindOwnSocket(i)
    \/ BindOwnSocketFails(i)
    \/ UseExplicitSpec(i)
    \/ SpawnServer(i)
    \/ StartupBinds(i)
    \/ StartupLifespanFails(i)
    \/ StartupBindFails(i)
    \/ StartupFinally(i)
    \/ ConfirmReady(i)
    \/ WriteManifest(i)
    \/ SupervisorReturns(i)

SupervisorNext ==
    \/ \E i \in Insts : \E s \in {Unset} \cup ExplicitPorts : Construct(i, s)
    \/ \E i \in Insts : RunBegins(i)
    \/ \E i \in Insts : BindOwnSocket(i)
    \/ \E i \in Insts : BindOwnSocketFails(i)
    \/ \E i \in Insts : UseExplicitSpec(i)
    \/ \E i \in Insts : SpawnServer(i)
    \/ \E i \in Insts : StartupBinds(i)
    \/ \E i \in Insts : StartupLifespanFails(i)
    \/ \E i \in Insts : StartupBindFails(i)
    \/ \E i \in Insts : StartupFinally(i)
    \/ \E i \in Insts : ConfirmReady(i)
    \/ \E i \in Insts : WriteManifest(i)
    \/ \E i \in Insts : ServerTaskEnds(i)
    \/ \E i \in Insts : SupervisorReturns(i)
    \/ \E i \in Insts : WaitStart(i)
    \/ \E i \in Insts : WaitReturn(i)

HostNext ==
    \/ \E i \in Insts : \E s \in {Unset} \cup ExplicitPorts : Construct(i, s)
    \/ \E i \in Insts : RunBegins(i)
    \/ \E i \in Insts : BindOwnSocket(i)
    \/ \E i \in Insts : BindOwnSocketFails(i)
    \/ \E i \in Insts : UseExplicitSpec(i)
    \/ \E i \in Insts : SpawnServer(i)
    \/ \E i \in Insts : StartupBinds(i)
    \/ \E i \in Insts : StartupLifespanFails(i)
    \/ \E i \in Insts : StartupBindFails(i)
    \/ \E i \in Insts : StartupFinally(i)
    \/ \E i \in Insts : ConfirmReady(i)
    \/ \E i \in Insts : WriteManifest(i)
    \/ \E i \in Insts : ServerTaskEnds(i)
    \/ \E i \in Insts : SupervisorReturns(i)
    \/ \E i \in Insts : RegisterAction(i)
    \/ SetEnv
    \/ \E i \in Insts : RunMain(i)
    \/ \E i \in Insts : UserTaskReturns(i)
    \/ \E i \in Insts : UserTaskFails(i)
    \/ \E i \in Insts : InterruptUserTask(i)
    \/ \E i \in Insts : \E s \in Signals : SignalArrives(i, s)
    \/ \E i \in Insts : DevRunnerReturns(i)

\* The supervisor threads, the host registering actions and the servers
\* listing them.
RegistryNext ==
    \/ \E i \in Insts : \E s \in {Unset} \cup ExplicitPorts : Construct(i, s)
    \/ \E i \in Insts : SupervisorStep(i)
    \/ \E i \in Insts : ServerTaskEnds(i)
    \/ \E i \in Insts : RegisterAction(i)
    \/ \E i \in Insts : ListActions(i)

\* run_main and what the host does around it.
RunMainNext ==
    \/ \E i \in Insts : \E s \in {Unset} \cup ExplicitPorts : Construct(i, s)
    \/ SetEnv
    \/ \E i \in Insts : RunMain(i)
    \/ \E i \in Insts : UserTaskReturns(i)
    \/ \E i \in Insts : UserTaskFails(i)
    \/ \E i \in Insts : InterruptUserTask(i)
    \/ \E i \in Insts : \E s \in Signals : SignalArrives(i, s)
    \/ \E i \in Insts : DevRunnerReturns(i)

Next == CacheNext \/ SupervisorNext \/ HostNext \/ RunMainNext \/ RegistryNext

\* The whole program.  The cache and the instances share no state, so the
\* claims about each are checked under the specification of that part.
Spec == Init /\ [][Next]_vars

\* The getter of one factory, called from two event loops.
CacheSpec == Init /\ [][CacheNext]_vars

\* The instances, their supervisor threads and waiters on readiness.
SupervisorSpec == Init /\ [][SupervisorNext]_vars

\* The same under the scheduling the threads get: a supervisor thread, its
\* server task and a released waiter each run when they can.
FairSupervisorSpec ==
    /\ SupervisorSpec
    /\ \A i \in Insts : WF_vars(SupervisorStep(i))
    /\ \A i \in Insts : WF_vars(WaitReturn(i))

\* The instances, their supervisor threads and what the host does with them.
HostSpec == Init /\ [][HostNext]_vars

\* The instances, their supervisor threads, the registry and its listing.
RegistrySpec == Init /\ [][RegistryNext]_vars

\* run_main on the main thread, the supervisor threads left aside.
RunMainSpec == Init /\ [][RunMainNext]_vars

\* The same under the scheduling the main thread's event loop gives: a
\* cancelled dev_runner is resumed.
FairRunMainSpec ==
    /\ RunMainSpec
    /\ \A i \in Insts : WF_vars(DevRunnerReturns(i))

(***************************************************************************)
(* What the log of a loop says.                                            *)
(***************************************************************************)
\* The values calls of _get made from loop l have returned to their callers.
Returned(l) == {log[l][i].val : i \in {j \in 1..Len(log[l]) : log[l][j].kind # "raise"}}

\* The positions in log[l] of the calls that invoked the factory.
Invocations(l) == {i \in 1..Len(log[l]) : log[l][i].kind # "hit"}

\* The positions in log[l] of the calls whose factory returned an object.
Creations(l) == {i \in 1..Len(log[l]) : log[l][i].kind = "new"}

\* Every invocation of the factory so far produced a fresh object.
FactoryIsFresh ==
    /\ ~reused
    /\ \A l \in Loops : \A i \in 1..Len(log[l]) : log[l][i].kind # "none"

(***************************************************************************)
(* C1: two calls of the getter from the same live event loop return the    *)
(* identical instance, whatever the factory and whatever calls from other  *)
(* loops interleave.  As stated: all values returned in one loop are one   *)
(* value.                                                                  *)
(***************************************************************************)
C1_SameLoopSameValue ==
    \A l \in Loops : Cardinality(Returned(l)) <= 1

\* C1 as amended: any two calls from the same loop that return a non-null
\* instance return the identical instance.
C1_SameLoopSameInstance ==
    \A l \in Loops : Cardinality(Returned(l) \ {None}) <= 1

\* Two calls from loop A, by different callers, have returned, the second
\* one from the cache, and loop B has made a call too.
C1_Witness ==
    /\ Len(log["A"]) >= 2
    /\ log["A"][1].kind = "new"
    /\ log["A"][2].kind = "hit"
    /\ log["A"][1].task # log["A"][2].task
    /\ Len(log["B"]) >= 1

(***************************************************************************)
(* C2: with a factory that produces a fresh instance on each invocation,   *)
(* the instance returned in one loop is never the instance returned in     *)
(* another loop, and an instance is only ever returned to the loop whose   *)
(* call created it.                                                        *)
(***************************************************************************)
C2_DistinctLoopsDistinctInstances ==
    FactoryIsFresh =>
        /\ \A l1, l2 \in Loops : l1 # l2 => Returned(l1) \cap Returned(l2) = {}
        /\ \A l \in Loops : \A v \in Returned(l) :
               \E i \in Creations(l) : log[l][i].val = v

\* Both loops have got an instance from the fresh factory, loop A twice.
C2_Witness ==
    /\ FactoryIsFresh
    /\ Returned("A") # {}
    /\ Returned("B") # {}
    /\ Len(log["A"]) >= 2

(***************************************************************************)
(* C3: for each event loop the factory is invoked at most once over any    *)
(* sequence of getter calls.                                               *)
(***************************************************************************)
C3_FactoryOncePerLoop ==
    \A l \in Loops : Cardinality(Invocations(l)) <= 1

\* C3 as amended: the factory returns an instance at most once per loop, and
\* once it has, no later call from that loop invokes the factory; only the
\* invocations that raised or returned None are repeated.
C3_FactorySucceedsOncePerLoop ==
    \A l \in Loops :
        /\ Cardinality(Creations(l)) <= 1
        /\ \A i \in Creations(l) : \A j \in Invocations(l) : j <= i

\* Two tasks of loop A were inside _get at once before the first instance
\* was made, and both have returned.
C3_Witness ==
    /\ Len(log["A"]) >= 2
    /\ Cardinality(Creations("A")) = 1
    /\ \E i, j \in 1..Len(log["A"]) : log["A"][i].task # log["A"][j].task
    /\ calls >= 3

(***************************************************************************)
(* C4: when the factory raises in a call from loop C, the exception        *)
(* reaches the caller, the cache yields nothing for C afterwards and is    *)
(* otherwise unchanged, the lock is released, and the next call from C     *)
(* invokes the factory again.                                              *)
(***************************************************************************)
\* Task t's call of the factory ends by raising: the call leaves _get
\* and is logged as raised.
C4_RaiseStep(t) ==
    /\ pc[t] = "factory"
    /\ pc'[t] = "idle"
    /\ Len(log'[get_running_loop(t)]) = Len(log[get_running_loop(t)]) + 1
    /\ log'[get_running_loop(t)][Len(log'[get_running_loop(t)])].kind = "raise"

C4_FactoryFailureNotCached ==
    /\ [][\A t \in Tasks : C4_RaiseStep(t) =>
              /\ result'[t].kind = "raise"
              /\ by_loop' = by_loop
              /\ (IF get_running_loop(t) \in DOMAIN by_loop'
                    THEN by_loop'[get_running_loop(t)] ELSE None) = None
              /\ lock' = NoTask]_vars
    /\ [](\A l \in Loops : \A i \in 1..Len(log[l]) :
              (log[l][i].kind = "raise" /\ i < Len(log[l]))
                  => log[l][i + 1].kind # "hit")

\* The factory raised in a call from loop A while loop B held an entry, and
\* the next call from A invoked the factory again and got an instance.
C4_Witness ==
    /\ Len(log["A"]) >= 2
    /\ log["A"][1].kind = "raise"
    /\ log["A"][2].kind = "new"
    /\ "B" \in DOMAIN by_loop
    /\ lock = NoTask

(***************************************************************************)
(* What the state of a supervisor says.                                    *)
(***************************************************************************)
\* The supervisor thread of instance i has ended.
Ended(i) == thr[i] \in {"failed", "stopped", "crashed"}

\* The bind or the startup of instance i's server failed: the supervisor's
\* own bind raised or uvicorn could not bind (the thread ended "crashed"),
\* or the lifespan startup failed (should_exit).
StartFailed(i) == thr[i] = "crashed" \/ should_exit[i]

\* Event e is in events[i], and every e2 in events[i] comes after an e1.
Happened(i, e) == \E k \in 1..Len(events[i]) : events[i][k] = e

After(i, e1, e2) ==
    \A k \in 1..Len(events[i]) :
        events[i][k] = e2 => \E j \in 1..(k - 1) : events[i][j] = e1

(***************************************************************************)
(* C5: every instance constructed in development mode eventually has its   *)
(* readiness signal set with its server serving, with no further call by   *)
(* the caller, each instance independently of the others.  A constructed   *)
(* development-mode instance is one whose supervisor thread has just been  *)
(* started.                                                                *)
(***************************************************************************)
C5_DevInstanceServes ==
    \A i \in Insts :
        (host[i] = "dev" /\ thr[i] = "start") ~> (ready[i] /\ srv[i] = "serving")

\* C5 as amended: ... unless the bind or the startup of its server fails.
C5_DevInstanceServesUnlessStartFails ==
    \A i \in Insts :
        (host[i] = "dev" /\ thr[i] = "start")
            ~> ((ready[i] /\ srv[i] = "serving") \/ StartFailed(i))

\* Two instances with distinct explicit endpoints are both ready and serving.
C5_Witness ==
    /\ spec["g1"] = "p1"
    /\ spec["g2"] = "p2"
    /\ \A i \in Insts : ready[i] /\ srv[i] = "serving" /\ ~own[i]

(***************************************************************************)
(* C6: an instance constructed with the development-mode flag not set has  *)
(* no supervisor thread, and its readiness signal is unset in every later  *)
(* state, whatever the host does afterwards (registering actions,          *)
(* run_main, changes of the environment).                                  *)
(***************************************************************************)
C6_ProdNeverReady ==
    \A i \in Insts :
        host[i] = "prod" => (thr[i] = "none" /\ srv[i] = "none" /\ ~ready[i])

\* g1 was constructed in production mode, has registered a flow and has
\* finished a run_main that took the development path (the environment
\* changed after construction), while g2, constructed in development mode,
\* is ready.
C6_Witness ==
    /\ host["g1"] = "prod"
    /\ "flow" \in registry["g1"]
    /\ rm["g1"] = "returned"
    /\ rm_result["g1"] = "None"
    /\ host["g2"] = "dev"
    /\ ready["g2"]
    /\ ~ready["g1"]

(***************************************************************************)
(* C7: once a supervisor has been started, no waiter on the readiness      *)
(* signal blocks forever, also when binding or startup fails: on every     *)
(* path out of the bind/startup step the signal is set.  Stated on the     *)
(* final states: a supervisor thread that has ended has set the signal     *)
(* (nothing sets it after the thread has ended).                           *)
(***************************************************************************)
C7_ReadySetOnEveryExit ==
    \A i \in Insts : Ended(i) => ready[i]

(***************************************************************************)
(* C8: when the readiness wait completes while the server reports that it  *)
(* is exiting, the supervisor returns without writing the runtime manifest *)
(* and without awaiting the server task: a supervisor past its wait whose  *)
(* server has should_exit set is in Failed, with no manifest written.      *)
(***************************************************************************)
C8_FailedWritesNoManifest ==
    \A i \in Insts :
        /\ (should_exit[i] /\ thr[i] \notin {"none", "start", "spawn", "wait"})
               => thr[i] = "failed"
        /\ thr[i] = "failed" => (~manifest[i] /\ ~Happened(i, "manifest"))

\* g1's startup failed with should_exit set, readiness was signalled, and
\* the supervisor has returned; g2 meanwhile serves with its manifest written.
C8_Witness ==
    /\ thr["g1"] = "failed"
    /\ ready["g1"]
    /\ should_exit["g1"]
    /\ manifest["g2"]

(***************************************************************************)
(* C9: in every supervisor run the socket is bound before the supervisor   *)
(* confirms readiness, readiness is confirmed before the runtime manifest  *)
(* is written, and the manifest is never written while the readiness       *)
(* signal is unset.                                                        *)
(***************************************************************************)
C9_BindReadyManifestOrder ==
    \A i \in Insts :
        /\ After(i, "bind", "confirmed")
        /\ After(i, "confirmed", "manifest")
        /\ After(i, "ready_set", "manifest")
        /\ manifest[i] => (ready[i] /\ Happened(i, "manifest"))

\* One supervisor that bound its own socket and one whose socket uvicorn
\* bound have both written their manifest.
C9_Witness ==
    /\ own["g1"] /\ manifest["g1"]
    /\ ~own["g2"] /\ manifest["g2"]

(***************************************************************************)
(* C10: a bind or startup failure of the reflection server never surfaces  *)
(* as a failure of the host: the constructor has returned normally, and    *)
(* run_main ends as the user's coroutine and the mode alone decide.        *)
(***************************************************************************)
C10_ServerFailureStaysInThread ==
    \A i \in Insts :
        /\ ctor[i] # "raised"
        /\ (thr[i] \in {"failed", "crashed"}) =>
              /\ ctor[i] = "returned"
              /\ rm[i] = "returned" => rm_result[i] = user_result[i]
              /\ rm[i] = "raised" => rm_result[i] = "exception"

\* g1's supervisor crashed on its bind and g2's failed at startup; run_main
\* on g1 has returned the user's value all the same.
C10_Witness ==
    /\ thr["g1"] = "crashed"
    /\ thr["g2"] = "failed"
    /\ ctor["g1"] = "returned"
    /\ rm["g1"] = "returned"
    /\ rm_result["g1"] = "value"

\* C11: in development mode run_main has not returned unless SIGINT or
\* SIGTERM has arrived, whether or not the user's coroutine has finished;
\* what it returns is the coroutine's result when the coroutine succeeded;
\* and once a signal has arrived during the wait, run_main returns.
C11_DevReturnsOnSignalOnly ==
    /\ [](\A i \in Insts :
            (rm_mode[i] = "dev" /\ rm[i] = "returned")
              => /\ rm_signal[i] \in Signals
                 /\ user_result[i] = "value" => rm_result[i] = "value")
    /\ [](\A i \in Insts :
            (rm_mode[i] = "dev" /\ rm_signal[i] = "none") => rm_result[i] = "pending")
    /\ \A i \in Insts : \A s \in Signals :
            (rm[i] = "dev_cancelled" /\ rm_signal[i] = s)
              ~> (rm[i] = "returned" /\ rm_signal[i] = s)

C11_Witness ==
    /\ rm_mode["g1"] = "dev"
    /\ rm["g1"] = "returned"
    /\ rm_signal["g1"] = "SIGTERM"
    /\ rm_result["g1"] = "value"
    /\ user_result["g1"] = "value"

\* C12: in development mode a failure of the user's coroutine never reaches
\* the caller of run_main: it is logged, the signal wait is entered all the
\* same, and once a signal has arrived run_main returns None.
C12_DevFailureSwallowed ==
    /\ [](\A i \in Insts :
            rm_mode[i] = "dev" => (rm[i] # "raised" /\ rm_result[i] # "exception"))
    /\ [](\A i \in Insts :
            logged[i] => /\ rm_mode[i] = "dev"
                         /\ rm[i] \in {"dev_wait", "dev_cancelled", "returned"}
                         /\ rm[i] = "returned"
                              => (rm_result[i] = "None" /\ rm_signal[i] \in Signals))
    /\ \A i \in Insts :
            (logged[i] /\ rm[i] = "dev_cancelled")
              ~> (rm[i] = "returned" /\ rm_result[i] = "None")

C12_Witness ==
    /\ rm_mode["g1"] = "dev"
    /\ logged["g1"]
    /\ rm["g1"] = "returned"
    /\ rm_signal["g1"] = "SIGINT"
    /\ rm_result["g1"] = "None"

\* C13: in production mode run_main runs the user's coroutine to its end
\* and returns its result or raises its failure unchanged; it never enters
\* the signal wait, logs no swallowed failure, and no step of it starts or
\* touches a supervisor thread or a server.
C13_ProdRunsToCompletion ==
    /\ [](\A i \in Insts :
            rm_mode[i] = "prod"
              => /\ rm[i] \in {"prod_run", "returned", "raised"}
                 /\ rm_signal[i] = "none"
                 /\ ~logged[i]
                 /\ rm[i] = "prod_run" => rm_result[i] = "pending"
                 /\ rm[i] = "returned"
                      => (user_result[i] = "value" /\ rm_result[i] = "value")
                 /\ rm[i] = "raised" => rm_result[i] = "exception")
    /\ [][\A i \in Insts :
            (rm'[i] # rm[i] /\ rm_mode'[i] = "prod")
              => UNCHANGED <<thr, srv, ready, spec, bound, manifest>>]_vars

\* A production-mode run_main on an instance with no supervisor thread has
\* returned the value, while g2's server is serving.
C13_Witness ==
    /\ rm_mode["g1"] = "prod"
    /\ host["g1"] = "prod"
    /\ thr["g1"] = "none"
    /\ rm["g1"] = "returned"
    /\ rm_result["g1"] = "value"
    /\ srv["g2"] = "serving"

\* C14: with no explicit spec, no two supervisors hold the same resolved
\* port at the same time, however their runs interleave: the port is chosen
\* and bound in one step on the supervisor's own socket, so a held port is
\* an ephemeral port recorded as bound and stored as the instance's spec.
C14_DistinctEphemeralPorts ==
    /\ \A i \in Insts : \A j \in Insts \ {i} :
          (Holding(i) /\ Holding(j)) => spec[i] # spec[j]
    /\ \A i \in Insts :
          (own[i] /\ srv[i] \in {"starting", "started", "serving"})
            => (Holding(i) /\ spec[i] \in EphemeralPorts)

\* Both instances were constructed with no spec and both serve on the
\* sockets they bound themselves.
C14_Witness ==
    /\ Holding("g1") /\ Holding("g2")
    /\ srv["g1"] = "serving" /\ srv["g2"] = "serving"
    /\ ready["g1"] /\ ready["g2"]

\* C15: construction in development mode returns without waiting for
\* readiness (the signal is unset and the server not yet created when the
\* constructor returns), and every action listing the server produces
\* contains every action whose registration on the host thread had
\* completed before: the server reads the registry the host writes.
C15_RegisteredActionListed ==
    /\ [][\A i \in Insts :
            (ctor[i] = "no" /\ ctor'[i] = "returned" /\ host'[i] = "dev")
              => (~ready'[i] /\ thr'[i] = "start" /\ srv'[i] = "none")]_vars
    /\ [][\A i \in Insts :
            listing'[i] # listing[i] => registry[i] \subseteq listing'[i]]_vars
    /\ [](\A i \in Insts : listing[i] \subseteq registry[i])

\* The flow was registered after construction and the server's listing
\* shows it.
C15_Witness ==
    /\ host["g1"] = "dev"
    /\ srv["g1"] = "serving"
    /\ listing["g1"] = {"generate", "flow"}

\* C16: the cache does not outlive a loop: when a loop is destroyed its
\* entry is gone with it, every entry the cache holds was stored by a call
\* made from the loop that now lives at that key, and (the factory making a
\* fresh object on every invocation) no call made from a live loop returns
\* an instance a destroyed loop was given.
C16_DestroyedLoopHasNoEntry ==
    /\ [][Len(dead') > Len(dead)
            => dead'[Len(dead')].loop \notin DOMAIN by_loop']_vars
    /\ [](\A l \in DOMAIN by_loop :
            \E n \in 1..Len(log[l]) :
                /\ log[l][n].kind \in {"new", "none"}
                /\ log[l][n].val = by_loop[l])
    /\ [](FactoryIsFresh
            => \A k \in 1..Len(dead) : \A l \in Loops :
                   /\ Returned(l) \cap dead[k].objs = {}
                   /\ Lookup(l) \notin dead[k].objs)

\* The loop at "A" was destroyed while the cache held its instance, and a
\* call from the loop created there afterwards was given a new instance.
C16_Witness ==
    /\ Len(dead) = 1
    /\ dead[1].loop = "A"
    /\ dead[1].objs # {}
    /\ FactoryIsFresh
    /\ Lookup("A") # None
    /\ Lookup("A") \notin dead[1].objs
    /\ Lookup("A") \in Returned("A")

\* The state of instance i's supervisor: Created once its thread has been
\* started; Binding from the moment _run decides who binds until the
\* readiness wait is over; Serving once readiness was confirmed with the
\* server not exiting; Stopped when _run returned after the server task
\* ended; Failed when _run ended on a bind or startup failure, by returning
\* after the warning or by the exception that ended the thread.
SupervisorState(i) ==
    CASE thr[i] = "none" -> "NotStarted"
      [] thr[i] = "start" -> "Created"
      [] thr[i] \in {"resolve", "spawn", "wait"} -> "Binding"
      [] thr[i] \in {"write", "await"} -> "Serving"
      [] thr[i] = "stopped" -> "Stopped"
      [] thr[i] \in {"failed", "crashed"} -> "Failed"

AllowedTransitions ==
    { <<"NotStarted", "Created">>, <<"Created", "Binding">>, <<"Binding", "Serving">>,
      <<"Serving", "Stopped">>, <<"Binding", "Failed">> }

\* C17: a supervisor only moves Created -> Binding -> Serving -> Stopped or
\* Created -> Binding -> Failed: every change of its state is one of these
\* moves, so Serving is entered from Binding only, Failed and Stopped are
\* never left, and Serving is never followed by Failed.
C17_SupervisorTransitions ==
    [][\A i \in Insts :
         SupervisorState(i)' # SupervisorState(i)
           => <<SupervisorState(i), SupervisorState(i)'>> \in AllowedTransitions]_vars

\* One supervisor has stopped after serving, the other failed at startup.
C17_Witness ==
    /\ SupervisorState("g1") = "Stopped"
    /\ SupervisorState("g2") = "Failed"
    /\ Happened("g1", "confirmed")
    /\ should_exit["g2"]

\* C18: the readiness signal only ever changes from unset to set, and the
\* step that sets it is the end of the server's startup, run on the
\* supervisor's thread after the supervisor has created the server: the
\* host thread (constructor, registry) and the waiters change nothing in
\* that step, and the signal is set once.
C18_ReadyMonotonicSingleSetter ==
    /\ [][\A i \in Insts : ready[i] => ready'[i]]_vars
    /\ [][\A i \in Insts :
            (~ready[i] /\ ready'[i])
              => /\ thr[i] = "wait"
                 /\ srv[i] \in {"started", "exiting", "sysexit"}
                 /\ srv'[i] \in {"serving", "ended"}
                 /\ events'[i] = Append(events[i], "ready_set")
                 /\ UNCHANGED <<ctor, host, registry, waiter>>]_vars
    /\ [](\A i \in Insts :
            ready[i] <=> Cardinality({n \in 1..Len(events[i]) : events[i][n] = "ready_set"}) = 1)

\* The signal of g1 is set and a waiter on it has been released; a waiter
\* on g2 still waits.
C18_Witness ==
    /\ ready["g1"]
    /\ waiter["g1"] = "released"
    /\ ~ready["g2"]
    /\ waiter["g2"] = "waiting"
    /\ thr["g2"] = "wait"

\* C19 as stated: in every state where the readiness signal is set, the
\* bind of the instance's server has succeeded.
C19_ReadyOnlyAfterBind ==
    \A i \in Insts : ready[i] => Happened(i, "bind")

\* C19, amended: the readiness signal is set when the server's startup
\* step ends, after a successful bind and after a failed startup alike: in
\* every state where it is set the startup step has ended, and the bind
\* has succeeded unless the start failed (the server reports exiting or
\* the supervisor's thread ended on the error); a serving server has bound
\* and has its signal set.
C19_ReadySetWhenStartupEnded ==
    \A i \in Insts :
        /\ ready[i] => /\ Happened(i, "ready_set")
                        /\ srv[i] \in {"serving", "ended"}
                        /\ (Happened(i, "bind") \/ StartFailed(i))
        /\ srv[i] = "serving" => (ready[i] /\ Happened(i, "bind"))

\* g1's startup failed before any bind and its signal is set all the same;
\* g2 bound, serves and has its signal set.
C19_Witness ==
    /\ ready["g1"]
    /\ ~Happened("g1", "bind")
    /\ should_exit["g1"]
    /\ ready["g2"]
    /\ srv["g2"] = "serving"

\* C20: the readiness wait cannot deadlock with the startup it waits for:
\* while the supervisor waits with the signal unset, a step of the server
\* task is enabled on the supervisor's event loop (the blocking wait is on
\* a worker thread), and under fair scheduling every readiness wait ends.
C20_ReadinessWaitEnds ==
    /\ [](\A i \in Insts :
            (thr[i] = "wait" /\ ~ready[i])
              => ENABLED (StartupBinds(i) \/ StartupLifespanFails(i)
                            \/ StartupBindFails(i) \/ StartupFinally(i)))
    /\ \A i \in Insts : (thr[i] = "wait") ~> (thr[i] # "wait")

\* While g1's supervisor is still in the readiness wait, its server task
\* has run its startup on the same event loop and set the signal.
C20_Witness ==
    /\ thr["g1"] = "wait"
    /\ srv["g1"] = "serving"
    /\ ready["g1"]
    /\ Happened("g1", "ready_set")

\* C21: a supervisor that has returned from Serving (readiness confirmed,
\* runtime file written) has a server task that has ended: in no state has
\* it returned while its server task still runs.
C21_NoReturnWhileServing ==
    \A i \in Insts :
        thr[i] = "stopped"
          => /\ srv[i] = "ended"
             /\ manifest[i]
             /\ Happened(i, "confirmed")

\* g1's supervisor has returned after its server task ended; g2's is in
\* Serving, awaiting its running server task.
C21_Witness ==
    /\ thr["g1"] = "stopped"
    /\ srv["g1"] = "ended"
    /\ thr["g2"] = "await"
    /\ srv["g2"] = "serving"
    /\ manifest["g2"]

\* C22: once an instance is constructed, its server spec changes at most
\* once: only from unset, in the step in which the supervisor binds its own
\* socket, to the port of that socket; an explicit spec never changes, and
\* one bind is made for an instance, by the supervisor when the spec was
\* unset (the server is handed that socket) and by the server otherwise.
C22_SpecResolvedOnce ==
    /\ [][\A i \in Insts :
            (host[i] # "absent" /\ spec'[i] # spec[i])
              => /\ spec[i] = Unset
                 /\ thr[i] = "resolve"
                 /\ ~own[i] /\ own'[i]
                 /\ spec'[i] \in EphemeralPorts
                 /\ spec'[i] \in bound' \ bound
                 /\ events'[i] = Append(events[i], "bind")]_vars
    /\ [](\A i \in Insts :
            /\ own[i] <=> spec[i] \in EphemeralPorts
            /\ Cardinality({n \in 1..Len(events[i]) : events[i][n] = "bind"}) <= 1)

\* g1 was given no spec and serves on the port its supervisor bound; g2
\* serves on the explicit port it was given.
C22_Witness ==
    /\ own["g1"]
    /\ spec["g1"] \in EphemeralPorts
    /\ srv["g1"] = "serving"
    /\ ~own["g2"]
    /\ spec["g2"] \in ExplicitPorts
    /\ srv["g2"] = "serving"

\* C23: nothing executed while the mutex is held tries to acquire the same
\* mutex again: in no state does the task holding the lock wait for it, so
\* every call that has started acquiring can still get and release it.
C23_NoReacquireWhileHeld ==
    \A t \in Tasks : ~(lock = t /\ pc[t] = "reenter")

\* C24: whenever the readiness signal of an instance is set, its server
\* spec is resolved; for an instance constructed with no spec it is the
\* port its supervisor bound, stored before the signal was set.  A waiter
\* released by the signal therefore reads a resolved spec.
C24_ReadyImpliesSpecResolved ==
    \A i \in Insts :
        /\ ready[i] => /\ spec[i] # Unset
                        /\ own[i] => (spec[i] \in EphemeralPorts
                                        /\ After(i, "bind", "ready_set"))
        /\ waiter[i] = "released" => spec[i] # Unset

\* g1 was constructed with no spec; its signal is set, a waiter has been
\* released and the spec is the port the supervisor bound.
C24_Witness ==
    /\ host["g1"] = "dev"
    /\ own["g1"]
    /\ ready["g1"]
    /\ waiter["g1"] = "released"
    /\ spec["g1"] \in EphemeralPorts

\* C25 as stated: once the factory has returned None for a loop, every
\* later call from that loop invokes the factory; after a non-null result
\* no later call from that loop invokes it.
C25_NoneAlwaysReinvokes ==
    \A l \in Loops : \A n \in 1..Len(log[l]) : \A m \in (n + 1)..Len(log[l]) :
        /\ log[l][n].kind = "none" => log[l][m].kind # "hit"
        /\ log[l][n].kind = "new" => log[l][m].kind = "hit"

\* C25, amended: a None result is not a cached entry: the call that follows
\* a call whose factory returned None invokes the factory again, and so on
\* until the factory returns a non-null result; after a non-null result no
\* later call from that loop invokes the factory.
C25_NoneNotCached ==
    \A l \in Loops : \A n \in 1..Len(log[l]) :
        /\ (log[l][n].kind = "none" /\ n < Len(log[l]))
              => log[l][n + 1].kind # "hit"
        /\ log[l][n].kind = "new"
              => \A m \in (n + 1)..Len(log[l]) : log[l][m].kind = "hit"
        /\ log[l][n].kind = "hit" => log[l][n].val # None

\* In loop A the factory returned None, the next call invoked it again and
\* got an instance, and the call after that was served from the cache.
C25_Witness ==
    /\ Len(log["A"]) >= 3
    /\ log["A"][1].kind = "none"
    /\ log["A"][2].kind = "new"
    /\ log["A"][3].kind = "hit"
    /\ log["A"][3].val = log["A"][2].val

====
